---- MODULE Spec2Model ----
(***************************************************************************)
(* Model of the selector matcher (src/queryselector/selector.rs) and of    *)
(* the parser options bit field (src/parser/options.rs).                   *)
(*                                                                         *)
(* An Option<T> is a sequence of length at most one: None is <<>> and      *)
(* Some(x) is <<x>>.  Byte strings and decoded strings are sequences of    *)
(* numbers (bytes, respectively Unicode scalar values).                    *)
(***************************************************************************)
EXTENDS Integers, Sequences, FiniteSets, TLC

VARIABLES
    nodes,     \* the parser's node arena: handle -> node
    pc,        \* position of the matches() call: "idle", "call", "walk", "done"
    sel,       \* the selector of the call in progress
    node,      \* the candidate node of the call in progress
    curr,      \* `curr` of the Descendant arm's ancestor loop
    result,    \* Option<bool>: the value matches() returned
    steps,     \* ancestors the loop has resolved in this call (saturates at StepCap)
    visited,   \* nodes `curr` has been bound to in this call
    revisit,   \* the loop has bound `curr` to a node it was bound to before
    opts,      \* ParserOptions.0, the u8 bit field
    calls      \* the builder calls applied to opts since new(), oldest first

vars == <<nodes, pc, sel, node, curr, result, steps, visited, revisit, opts, calls>>

treeVars == <<nodes, pc, sel, node, curr, result, steps, visited, revisit>>
optVars == <<opts, calls>>

(***************************************************************************)
(* Bounds.                                                                 *)
(***************************************************************************)
MaxNode == 2      \* tree arenas hold the handles 0..MaxNode
MaxLen == 2       \* attribute values and selector literals have at most MaxLen bytes
MaxCalls == 6     \* builder calls applied to one ParserOptions value

StepCap == MaxNode + 3

None == <<>>
Some(x) == <<x>>

(***************************************************************************)
(* ParserOptions                                                           *)
(***************************************************************************)
TRACK_IDS == 1
TRACK_CLASSES == 2

U8 == 256

RECURSIVE BitOr(_, _, _)
\* a | b on the low `w` bits
BitOr(a, b, w) ==
    IF w = 0 THEN 0
    ELSE (IF (a % 2 = 1) \/ (b % 2 = 1) THEN 1 ELSE 0)
         + 2 * BitOr(a \div 2, b \div 2, w - 1)

RECURSIVE BitAnd(_, _, _)
\* a & b on the low `w` bits
BitAnd(a, b, w) ==
    IF w = 0 THEN 0
    ELSE (IF (a % 2 = 1) /\ (b % 2 = 1) THEN 1 ELSE 0)
         + 2 * BitAnd(a \div 2, b \div 2, w - 1)

default == 0

new == default

set_flag_assign(self, flag) == flag

\* self.0 |= flag
set_flag(self, flag) == BitOr(self, flag, 8) % U8

has_flag(self, flag) == BitAnd(self, flag, 8) # 0

track_ids(self) == set_flag(self, TRACK_IDS)

track_classes(self) == set_flag(self, TRACK_CLASSES)

is_tracking_ids(self) == has_flag(self, TRACK_IDS)

is_tracking_classes(self) == has_flag(self, TRACK_CLASSES)

is_tracking_only_high(self) == self > 1

is_tracking(self) == self > 0

(***************************************************************************)
(* Strings                                                                 *)
(***************************************************************************)
REPLACEMENT_CHARACTER == 65533

\* String::from_utf8_lossy / Bytes::as_utf8_str on byte strings whose bytes are
\* ASCII or one of 0xF8..0xFF (bytes that start no UTF-8 sequence, so each is
\* replaced on its own).
from_utf8_lossy(bytes) ==
    [i \in 1..Len(bytes) |->
        IF bytes[i] < 128 THEN bytes[i] ELSE REPLACEMENT_CHARACTER]

as_utf8_str(bytes) == from_utf8_lossy(bytes)

\* char::is_whitespace on the scalar values the model uses
is_whitespace(c) == c \in {9, 10, 11, 12, 13, 32, 133, 160}

starts_with(s, p) ==
    /\ Len(p) <= Len(s)
    /\ SubSeq(s, 1, Len(p)) = p

ends_with(s, p) ==
    /\ Len(p) <= Len(s)
    /\ SubSeq(s, Len(s) - Len(p) + 1, Len(s)) = p

contains(s, p) ==
    \E i \in 1..(Len(s) - Len(p) + 1) : SubSeq(s, i, i + Len(p) - 1) = p

\* the tokens str::split_whitespace yields: the maximal runs of non-whitespace
split_whitespace(s) ==
    { SubSeq(s, r[1], r[2]) :
        r \in { q \in (1..Len(s)) \X (1..Len(s)) :
                  /\ q[1] <= q[2]
                  /\ \A k \in q[1]..q[2] : ~is_whitespace(s[k])
                  /\ (q[1] = 1 \/ is_whitespace(s[q[1] - 1]))
                  /\ (q[2] = Len(s) \/ is_whitespace(s[q[2] + 1])) } }

(***************************************************************************)
(* Selector                                                                *)
(***************************************************************************)
Tag(v) == [k |-> "Tag", v |-> v]
Id(v) == [k |-> "Id", v |-> v]
Class(v) == [k |-> "Class", v |-> v]
All == [k |-> "All"]
And(a, b) == [k |-> "And", a |-> a, b |-> b]
Or(a, b) == [k |-> "Or", a |-> a, b |-> b]
Descendant(a, b) == [k |-> "Descendant", a |-> a, b |-> b]
Parent(a, b) == [k |-> "Parent", a |-> a, b |-> b]
Attribute(n) == [k |-> "Attribute", n |-> n]
AttributeValue(n, v) == [k |-> "AttributeValue", n |-> n, v |-> v]
AttributeValueWhitespacedContains(n, v) ==
    [k |-> "AttributeValueWhitespacedContains", n |-> n, v |-> v]
AttributeValueStartsWith(n, v) == [k |-> "AttributeValueStartsWith", n |-> n, v |-> v]
AttributeValueEndsWith(n, v) == [k |-> "AttributeValueEndsWith", n |-> n, v |-> v]
AttributeValueSubstring(n, v) == [k |-> "AttributeValueSubstring", n |-> n, v |-> v]

AttributeValueKinds ==
    { "AttributeValue", "AttributeValueWhitespacedContains", "AttributeValueStartsWith",
      "AttributeValueEndsWith", "AttributeValueSubstring" }

LeafKinds == { "Tag", "Id", "Class", "All", "Attribute" } \cup AttributeValueKinds

(***************************************************************************)
(* The tree context: what the matcher reads of a node.                     *)
(*   raw node: [kind |-> "raw"]                                            *)
(*   tag node: [kind |-> "tag", _name, _attributes, _parent]               *)
(*     _attributes = [id : Option<bytes>, class : Option<bytes>,           *)
(*                    raw : name -> Option<Option<bytes>>]                 *)
(*     _parent = Option<handle>                                            *)
(***************************************************************************)
\* Node::as_tag
as_tag(n) == IF nodes[n].kind = "tag" THEN Some(nodes[n]) ELSE None

\* NodeHandle::get
get(h) == IF h \in DOMAIN nodes THEN Some(h) ELSE None

\* HTMLTag::parent, the parent handle (absent for a root or detached tag)
parent(t) == t._parent

\* Option<NodeHandle> -> Option<&Node>: `handle?.get(parser)`
get_opt(oh) == IF oh = None THEN None ELSE get(oh[1])

\* Attributes::get: absent, present without a value, present with a value
attributes_get(attrs, key) ==
    IF key \in DOMAIN attrs.raw THEN attrs.raw[key] ELSE None

\* Attributes::is_class_member
is_class_member(attrs, member) ==
    /\ attrs.class # None
    /\ member \in split_whitespace(attrs.class[1])

\* Option::flatten
flatten(o) == IF o = None THEN None ELSE o[1]

\* the closures handed to check_attribute, by the arm that builds them
callback(rel, attr, value) ==
    CASE rel = "AttributeValue" -> attr = value
      [] rel = "AttributeValueEndsWith" -> ends_with(attr, value)
      [] rel = "AttributeValueStartsWith" -> starts_with(attr, value)
      [] rel = "AttributeValueSubstring" -> contains(attr, value)
      [] rel = "AttributeValueWhitespacedContains" -> value \in split_whitespace(attr)

check_attribute_presence(n, attribute, value, rel) ==
    LET t == as_tag(n) IN
    IF t = None THEN FALSE
    ELSE LET attr == attributes_get(t[1]._attributes, attribute) IN
         IF attr = None THEN FALSE
         ELSE IF attr[1] = None THEN callback(rel, <<>>, from_utf8_lossy(value))
         ELSE callback(rel, as_utf8_str(attr[1][1]), from_utf8_lossy(value))

check_attribute(n, attribute, value, rel) ==
    LET t == as_tag(n) IN
    IF t = None THEN FALSE
    ELSE LET attr == flatten(attributes_get(t[1]._attributes, attribute)) IN
         IF attr = None THEN FALSE
         ELSE callback(rel, as_utf8_str(attr[1]), from_utf8_lossy(value))

\* the ancestor the loop condition binds: curr.as_tag().and_then(|t| t._parent?.get(parser))
next_ancestor(c) ==
    LET t == as_tag(c) IN
    IF t = None THEN None ELSE get_opt(t[1]._parent)

RECURSIVE matches(_, _)
RECURSIVE ancestor_loop(_, _)

TagArm(tag, n) ==
    LET t == as_tag(n) IN
    IF t = None THEN FALSE ELSE t[1]._name = tag

IdArm(id, n) ==
    LET t == as_tag(n) IN
    IF t = None THEN FALSE ELSE t[1]._attributes.id = Some(id)

ClassArm(class, n) ==
    LET t == as_tag(n) IN
    IF t = None THEN FALSE ELSE is_class_member(t[1]._attributes, class)

AndArm_first_only(a, b, n) == matches(a, n)

AndArm(a, b, n) == matches(a, n) /\ matches(b, n)

OrArm(a, b, n) == matches(a, n) \/ matches(b, n)

AllArm_tags_only(n) == as_tag(n) # None

AllArm(n) == TRUE

ParentArm_any_ancestor(a, b, n) == matches(b, n) /\ ancestor_loop(a, n)

ParentArm(a, b, n) ==
    LET t == as_tag(n) IN
    IF t = None THEN FALSE
    ELSE LET p == get_opt(parent(t[1])) IN
         IF p = None THEN FALSE
         ELSE matches(a, p[1]) /\ matches(b, n)

ancestor_loop_parent_only(a, c) ==
    LET ancestor == next_ancestor(c) IN
    IF ancestor = None THEN FALSE ELSE matches(a, ancestor[1])

\* the while-let loop of the Descendant arm, entered with curr = c
ancestor_loop(a, c) ==
    LET ancestor == next_ancestor(c) IN
    IF ancestor = None THEN FALSE
    ELSE IF matches(a, ancestor[1]) THEN TRUE
    ELSE ancestor_loop(a, ancestor[1])

DescendantArm(a, b, n) ==
    IF ~matches(b, n) THEN FALSE ELSE ancestor_loop(a, n)

AttributeArm_default_true(attribute, n) ==
    LET t == as_tag(n) IN
    IF t = None THEN TRUE
    ELSE attributes_get(t[1]._attributes, attribute) # None

AttributeArm(attribute, n) ==
    LET t == as_tag(n) IN
    IF t = None THEN FALSE
    ELSE attributes_get(t[1]._attributes, attribute) # None

matches(s, n) ==
    CASE s.k = "Tag" -> TagArm(s.v, n)
      [] s.k = "Id" -> IdArm(s.v, n)
      [] s.k = "Class" -> ClassArm(s.v, n)
      [] s.k = "And" -> AndArm(s.a, s.b, n)
      [] s.k = "Or" -> OrArm(s.a, s.b, n)
      [] s.k = "All" -> AllArm(n)
      [] s.k = "Parent" -> ParentArm(s.a, s.b, n)
      [] s.k = "Descendant" -> DescendantArm(s.a, s.b, n)
      [] s.k = "Attribute" -> AttributeArm(s.n, n)
      [] s.k \in AttributeValueKinds -> check_attribute(n, s.n, s.v, s.k)

(***************************************************************************)
(* Inputs: arenas and selectors                                            *)
(***************************************************************************)
Handles == 0..MaxNode

\* a handle that resolves to no node of the arena
Dangling == MaxNode + 1

NameA == <<97>>
NameB == <<98>>
Names == { NameA, NameB }

NoAttributes == [id |-> None, class |-> None, raw |-> <<>>]

RawNode == [kind |-> "raw"]

TagNode(name, attrs, p) ==
    [kind |-> "tag", _name |-> name, _attributes |-> attrs, _parent |-> p]

\* the nodes a handle may hold when parent handles are drawn from `hs`
NodeChoices(hs) ==
    { RawNode } \cup
    { TagNode(nm, NoAttributes, p) : nm \in Names, p \in { None } \cup { Some(h) : h \in hs } }

\* Acyclic arenas.  Handles are named so that a parent handle that resolves is
\* smaller than its child's (every finite forest has such a naming); a parent
\* handle may also be absent or dangle.
AcyclicArenas(dangling) ==
    { f \in [Handles -> NodeChoices(Handles \cup dangling)] :
        \A n \in Handles : f[n] \in NodeChoices((0..(n - 1)) \cup dangling) }

\* Arenas whose parent handles are arbitrary: chains may close into cycles.
AnyArenas == [Handles -> NodeChoices(Handles \cup { Dangling })]

Alphabet == { 32, 97, 255 }

ByteStrings == UNION { [1..n -> Alphabet] : n \in 0..MaxLen }

AttrK == <<107>>
AttrZ == <<122>>

\* Option<Option<bytes>>: absent, present without a value, present with a value
AttrStates == { None, Some(None) } \cup { Some(Some(v)) : v \in ByteStrings }

LeafArenas ==
    [{ 0 } ->
        { RawNode } \cup
        { TagNode(nm, [id |-> i, class |-> c, raw |-> [x \in { AttrK } |-> st]], None) :
            nm \in Names,
            i \in { None, Some(NameA) },
            c \in { None, Some(NameA), Some(<<97, 32, 98>>) },
            st \in AttrStates }]

LeafSelectors ==
    { All }
    \cup { Tag(v) : v \in Names }
    \cup { Id(v) : v \in Names }
    \cup { Class(v) : v \in Names }
    \cup { Attribute(n) : n \in { AttrK, AttrZ } }
    \cup { [k |-> kd, n |-> n, v |-> v] :
             kd \in AttributeValueKinds, n \in { AttrK, AttrZ }, v \in ByteStrings }

WalkOperands ==
    { Tag(NameA), All, Parent(Tag(NameB), All), Descendant(Tag(NameA), Tag(NameB)) }

WalkSelectors ==
    { Descendant(a, b) : a \in WalkOperands, b \in WalkOperands }
    \cup { Parent(a, b) : a \in WalkOperands, b \in WalkOperands }

\* operands whose evaluation never walks more than one parent handle
CycOperands == { Tag(NameA), All, Parent(Tag(NameB), All) }

CycSelectors == { Descendant(a, b) : a \in CycOperands, b \in CycOperands }

AlgOperands ==
    { Tag(NameA), All, Parent(Tag(NameB), All), Descendant(Tag(NameA), Tag(NameB)) }

AlgSelectors ==
    { And(x, y) : x \in AlgOperands, y \in AlgOperands }
    \cup { Or(x, y) : x \in AlgOperands, y \in AlgOperands }
    \cup { And(And(x, y), z) : x \in AlgOperands, y \in AlgOperands, z \in AlgOperands }
    \cup { Or(Or(x, y), z) : x \in AlgOperands, y \in AlgOperands, z \in AlgOperands }

(***************************************************************************)
(* The call matches(sel, node)                                             *)
(***************************************************************************)
NoSelector == [k |-> "none"]

Idle ==
    /\ pc = "idle"
    /\ sel = NoSelector
    /\ node = 0
    /\ curr = 0
    /\ result = None
    /\ steps = 0
    /\ visited = {}
    /\ revisit = FALSE

NoOptions ==
    /\ opts = new
    /\ calls = <<>>

\* matches() on a selector whose outermost arm is not Descendant: one evaluation
Matches(S) ==
    /\ pc = "idle"
    /\ \E s \in S, n \in DOMAIN nodes :
        /\ s.k # "Descendant"
        /\ sel' = s
        /\ node' = n
        /\ result' = Some(matches(s, n))
    /\ pc' = "done"
    /\ UNCHANGED <<nodes, curr, steps, visited, revisit, opts, calls>>

\* Descendant arm, `if !b.matches(node, parser) { return false }`
DescendantTargetFails(S) ==
    /\ pc = "idle"
    /\ \E s \in S, n \in DOMAIN nodes :
        /\ s.k = "Descendant"
        /\ ~matches(s.b, n)
        /\ sel' = s
        /\ node' = n
    /\ result' = Some(FALSE)
    /\ pc' = "done"
    /\ UNCHANGED <<nodes, curr, steps, visited, revisit, opts, calls>>

\* Descendant arm, `let mut curr = node;`
DescendantEnterLoop(S) ==
    /\ pc = "idle"
    /\ \E s \in S, n \in DOMAIN nodes :
        /\ s.k = "Descendant"
        /\ matches(s.b, n)
        /\ sel' = s
        /\ node' = n
        /\ curr' = n
        /\ visited' = { n }
    /\ pc' = "walk"
    /\ UNCHANGED <<nodes, result, steps, revisit, opts, calls>>

Bump(c) == IF c < StepCap THEN c + 1 ELSE c

\* the loop condition binds no ancestor: fall out of the loop, `false`
LoopEnd ==
    /\ pc = "walk"
    /\ next_ancestor(curr) = None
    /\ result' = Some(FALSE)
    /\ pc' = "done"
    /\ UNCHANGED <<nodes, sel, node, curr, steps, visited, revisit, opts, calls>>

\* `if a.matches(ancestor, parser) { return true }`
LoopMatch ==
    /\ pc = "walk"
    /\ next_ancestor(curr) # None
    /\ matches(sel.a, next_ancestor(curr)[1])
    /\ steps' = Bump(steps)
    /\ result' = Some(TRUE)
    /\ pc' = "done"
    /\ UNCHANGED <<nodes, sel, node, curr, visited, revisit, opts, calls>>

LoopContinueStuck ==
    /\ pc = "walk"
    /\ next_ancestor(curr) # None
    /\ ~matches(sel.a, next_ancestor(curr)[1])
    /\ steps' = Bump(steps)
    /\ UNCHANGED <<nodes, pc, sel, node, curr, result, visited, revisit, opts, calls>>

\* `curr = ancestor;`
LoopContinue ==
    /\ pc = "walk"
    /\ next_ancestor(curr) # None
    /\ ~matches(sel.a, next_ancestor(curr)[1])
    /\ curr' = next_ancestor(curr)[1]
    /\ steps' = Bump(steps)
    /\ visited' = visited \cup { curr' }
    /\ revisit' = (revisit \/ curr' \in visited)
    /\ UNCHANGED <<nodes, pc, sel, node, result, opts, calls>>

\* the caller takes the result; the selector and the tree are free for the next call
Return ==
    /\ pc = "done"
    /\ pc' = "idle"
    /\ sel' = NoSelector
    /\ node' = 0
    /\ curr' = 0
    /\ result' = None
    /\ steps' = 0
    /\ visited' = {}
    /\ revisit' = FALSE
    /\ UNCHANGED <<nodes, opts, calls>>

Loop == LoopEnd \/ LoopMatch \/ LoopContinue

(***************************************************************************)
(* ParserOptions builder calls                                             *)
(***************************************************************************)
TrackIds ==
    /\ Len(calls) < MaxCalls
    /\ opts' = track_ids(opts)
    /\ calls' = Append(calls, "track_ids")
    /\ UNCHANGED treeVars

TrackClasses ==
    /\ Len(calls) < MaxCalls
    /\ opts' = track_classes(opts)
    /\ calls' = Append(calls, "track_classes")
    /\ UNCHANGED treeVars

(***************************************************************************)
(* Specifications                                                          *)
(***************************************************************************)
\* Parent and Descendant selectors on acyclic arenas
Init == nodes \in AcyclicArenas({ Dangling }) /\ Idle /\ NoOptions

Next ==
    \/ Matches(WalkSelectors)
    \/ DescendantTargetFails(WalkSelectors)
    \/ DescendantEnterLoop(WalkSelectors)
    \/ LoopEnd
    \/ LoopMatch
    \/ LoopContinue
    \/ Return

\* a call that has entered the ancestor loop keeps running
Spec == Init /\ [][Next]_vars /\ WF_vars(Loop)

\* Descendant selectors on arenas whose parent chains may be cyclic
InitCyc == nodes \in AnyArenas /\ Idle /\ NoOptions

NextCyc ==
    \/ DescendantTargetFails(CycSelectors)
    \/ DescendantEnterLoop(CycSelectors)
    \/ LoopEnd
    \/ LoopMatch
    \/ LoopContinue
    \/ Return

SpecCyc == InitCyc /\ [][NextCyc]_vars /\ WF_vars(Loop)

\* And / Or expressions on acyclic arenas
InitAlg == nodes \in AcyclicArenas({}) /\ Idle /\ NoOptions

NextAlg ==
    \/ Matches(AlgSelectors)
    \/ Return

SpecAlg == InitAlg /\ [][NextAlg]_vars

\* leaf selectors on a single node
InitLeaf == nodes \in LeafArenas /\ Idle /\ NoOptions

NextLeaf ==
    \/ Matches(LeafSelectors)
    \/ Return

SpecLeaf == InitLeaf /\ [][NextLeaf]_vars

\* the ParserOptions builder
InitOpts == nodes = [h \in { 0 } |-> RawNode] /\ Idle /\ NoOptions

NextOpts ==
    \/ TrackIds
    \/ TrackClasses

SpecOpts == InitOpts /\ [][NextOpts]_vars

(***************************************************************************)
(* What the properties speak of: the tree as a relation                    *)
(***************************************************************************)
\* p is the node that the parent handle of c resolves to
HasParent(c, p) ==
    /\ nodes[c].kind = "tag"
    /\ nodes[c]._parent = Some(p)
    /\ p \in DOMAIN nodes

RECURSIVE UpClosure(_, _)
UpClosure(S, fuel) ==
    IF fuel = 0 THEN S
    ELSE UpClosure(S \cup { p \in DOMAIN nodes : \E c \in S : HasParent(c, p) }, fuel - 1)

\* the nodes reached from n by following one or more parent handles
StrictAncestors(n) ==
    UpClosure({ p \in DOMAIN nodes : HasParent(n, p) }, Cardinality(DOMAIN nodes))

\* on an acyclic arena, the length of the parent chain above n
Depth(n) == Cardinality(StrictAncestors(n))

Range(q) == { q[i] : i \in 1..Len(q) }

AttrStateOf(n, name) ==
    IF name \in DOMAIN nodes[n]._attributes.raw
    THEN nodes[n]._attributes.raw[name]
    ELSE None

(***************************************************************************)
(* Properties                                                              *)
(***************************************************************************)

\* C1: on an acyclic tree, Descendant(a, t).matches(n) is true exactly when
\* t.matches(n) is true and some strict ancestor of n, reached by following parent
\* handles, satisfies a.matches; so it is false for a node with no ancestor.
C1_DescendantIffAncestor ==
    (pc = "done" /\ sel.k = "Descendant") =>
        LET expect ==
                /\ matches(sel.b, node)
                /\ \E m \in StrictAncestors(node) : matches(sel.a, m)
        IN  /\ result = Some(expect)
            /\ matches(sel, node) = expect
            /\ (StrictAncestors(node) = {} => result = Some(FALSE))

\* a Descendant call that is true through the grandparent, the parent not matching
C1_Witness ==
    /\ pc = "done"
    /\ sel.k = "Descendant"
    /\ result = Some(TRUE)
    /\ steps = 2
    /\ \E p \in DOMAIN nodes : HasParent(node, p) /\ ~matches(sel.a, p)

\* C2: Parent(a, t).matches(n) is false when n has no resolvable parent, and
\* otherwise equals t.matches(n) && a.matches(parent_of(n)), the immediate parent
\* only.
C2_ParentImmediateOnly ==
    (pc = "done" /\ sel.k = "Parent") =>
        IF \E p \in DOMAIN nodes : HasParent(node, p)
        THEN \A p \in DOMAIN nodes :
                HasParent(node, p) =>
                    result = Some(matches(sel.b, node) /\ matches(sel.a, p))
        ELSE result = Some(FALSE)

\* a Parent call that is false although the target and the grandparent match
C2_Witness ==
    /\ pc = "done"
    /\ sel.k = "Parent"
    /\ result = Some(FALSE)
    /\ matches(sel.b, node)
    /\ \E p \in DOMAIN nodes :
        /\ HasParent(node, p)
        /\ \E g \in DOMAIN nodes : HasParent(p, g) /\ matches(sel.a, g)

\* C3: on a cyclic parent chain the Descendant walk detects that it revisits a
\* node and surfaces a hard internal error instead of continuing.
C3_RevisitIsFault == revisit => pc = "fault"

\* C4: on an acyclic tree every matches call terminates with a boolean, and a
\* Descendant walk resolves at most depth(node) ancestors.
C4_Terminates ==
    /\ [](pc \in { "walk", "done" } => steps <= Depth(node))
    /\ [](pc = "done" => result \in { Some(TRUE), Some(FALSE) })
    /\ [](pc = "walk" => <>(pc = "done"))

\* a walk that ran all the way up a chain as long as the arena allows
C4_Witness ==
    /\ pc = "done"
    /\ sel.k = "Descendant"
    /\ steps = MaxNode
    /\ Depth(node) = MaxNode

\* C5 as stated: on a node with no tag representation every leaf predicate,
\* All included, is false.
C5_EveryLeafFalse ==
    (pc = "done" /\ nodes[node].kind = "raw" /\ sel.k \in LeafKinds) =>
        result = Some(FALSE)

\* C5, amended: on a node with no tag representation every leaf predicate other
\* than All is false, and All is true.
C5_LeafFalseExceptAll ==
    (pc = "done" /\ nodes[node].kind = "raw" /\ sel.k \in LeafKinds) =>
        result = Some(sel.k = "All")

\* an attribute predicate evaluated on a raw node
C5_Witness ==
    /\ pc = "done"
    /\ nodes[node].kind = "raw"
    /\ sel.k = "Attribute"
    /\ result = Some(FALSE)

\* C6: Or(e, All).matches(n) is true and And(e, All).matches(n) equals
\* e.matches(n), for every node n and expression e.
C6_IdentityLaws ==
    (pc = "done" /\ sel.k \in { "And", "Or" } /\ sel.b = All) =>
        /\ sel.k = "Or" => result = Some(TRUE)
        /\ sel.k = "And" => result = Some(matches(sel.a, node))

\* Or(e, All) on a raw node, where e is false
C6_Witness ==
    /\ pc = "done"
    /\ sel.k = "Or"
    /\ sel.b = All
    /\ nodes[node].kind = "raw"
    /\ ~matches(sel.a, node)
    /\ result = Some(TRUE)

Swapped(s) == [s EXCEPT !.a = s.b, !.b = s.a]

\* (x . y) . z  ->  x . (y . z)
Reassociated(s) == [s EXCEPT !.a = s.a.a, !.b = [k |-> s.k, a |-> s.a.b, b |-> s.b]]

\* C7: And and Or are commutative and associative in their result, also over
\* Parent and Descendant sub-expressions.
C7_CommutativeAssociative ==
    (pc = "done" /\ sel.k \in { "And", "Or" }) =>
        /\ result = Some(matches(Swapped(sel), node))
        /\ sel.a.k = sel.k => result = Some(matches(Reassociated(sel), node))

\* And(And(x, y), z) where only z is false, x a Descendant and y a Parent
C7_Witness ==
    /\ pc = "done"
    /\ sel.k = "And"
    /\ sel.a.k = "And"
    /\ sel.a.a.k = "Descendant"
    /\ sel.a.b.k = "Parent"
    /\ matches(sel.a, node)
    /\ result = Some(FALSE)

\* C8: a present but valueless attribute makes Attribute(name) true and every
\* AttributeValue* variant false for every literal; an absent attribute makes
\* both false; only an attribute with a value can make an AttributeValue*
\* variant true.
C8_PresenceVersusValue ==
    (pc = "done" /\ nodes[node].kind = "tag" /\ sel.k \in AttributeValueKinds \cup { "Attribute" }) =>
        LET st == AttrStateOf(node, sel.n) IN
        /\ (st = None) => result = Some(FALSE)
        /\ (st = Some(None)) => result = Some(sel.k = "Attribute")
        /\ (sel.k = "Attribute" /\ st # None) => result = Some(TRUE)
        /\ (sel.k \in AttributeValueKinds /\ result = Some(TRUE)) =>
                (st # None /\ st[1] # None)

\* [k^=""] on a tag whose attribute k is present without a value
C8_Witness ==
    /\ pc = "done"
    /\ nodes[node].kind = "tag"
    /\ sel = AttributeValueStartsWith(AttrK, <<>>)
    /\ AttrStateOf(node, AttrK) = Some(None)
    /\ result = Some(FALSE)

\* C9: after any sequence of track_ids() / track_classes() calls from new(),
\* is_tracking_ids() holds iff track_ids() was called and is_tracking_classes()
\* holds iff track_classes() was called; no call clears a flag, and setting one
\* flag leaves the other as it was.
C9_SetOnlyIndependent ==
    /\ [](/\ is_tracking_ids(opts) <=> "track_ids" \in Range(calls)
          /\ is_tracking_classes(opts) <=> "track_classes" \in Range(calls))
    /\ [][/\ is_tracking_ids(opts) => is_tracking_ids(opts')
          /\ is_tracking_classes(opts) => is_tracking_classes(opts')
          /\ TrackIds => (is_tracking_classes(opts') <=> is_tracking_classes(opts))
          /\ TrackClasses => (is_tracking_ids(opts') <=> is_tracking_ids(opts))]_vars

\* track_ids() called after track_classes(), and called twice
C9_Witness ==
    /\ Len(calls) >= 3
    /\ calls[1] = "track_classes"
    /\ calls[2] = "track_ids"
    /\ calls[3] = "track_ids"
    /\ is_tracking_ids(opts)
    /\ is_tracking_classes(opts)

\* C10: in every configuration reachable from new(), is_tracking() equals
\* is_tracking_ids() || is_tracking_classes(); new().is_tracking() is false.
C10_IsTrackingIffAnyFlag ==
    /\ is_tracking(opts) <=> (is_tracking_ids(opts) \/ is_tracking_classes(opts))
    /\ calls = <<>> => ~is_tracking(opts)

\* only track_ids() was called
C10_Witness ==
    /\ calls # <<>>
    /\ is_tracking(opts)
    /\ is_tracking_ids(opts)
    /\ ~is_tracking_classes(opts)

====
